---------------------------- MODULE Spec2Model ----------------------------
(***************************************************************************)
(* Model of research-agent/main.py.                                        *)
(*                                                                         *)
(* The program is a single-shot driver: at import it builds the Exa client *)
(* from EXA_API_KEY (line 18); main() prints a welcome panel, asks for one *)
(* query (line 39), builds an Agent whose only tool is exa_web_search      *)
(* (lines 42-53), awaits Runner.run(agent, query, max_turns=10) inside a   *)
(* console.status spinner (lines 56-57) and prints result.final_output     *)
(* (lines 60-66).  main() holds no try/except: whatever Runner.run raises  *)
(* leaves main() and asyncio.run (line 70).                                *)
(*                                                                         *)
(* The orchestration loop is the call at line 57.  Its steps are modelled  *)
(* as the agents SDK documents Runner.run: "the agent is invoked; if there *)
(* is a final output the loop terminates; else the tool calls are run and  *)
(* the loop is re-run; if max_turns is exceeded a MaxTurnsExceeded         *)
(* exception is raised".  A turn is one invocation of the model.           *)
(* @function_tool (line 22) turns an exception of the tool body into an    *)
(* error message that is returned to the model as the tool's output.       *)
(* Exa(api_key=None) raises ValueError; any other key is accepted without  *)
(* being verified.                                                         *)
(***************************************************************************)
EXTENDS Integers, Sequences, FiniteSets, TLC

\* ----------------------------------------------------------------- bounds
\* Most tool calls of a run beyond the first of each response: a response
\* requests one call, or more while this many further calls are left.
MaxExtraCalls == 1
\* Most search calls of a run that fail although the credential is valid.
MaxFailures == 1

\* ------------------------------------------------------ program constants
\* Runner.run(agent, query, max_turns=10)
max_turns == 10

\* EXA_API_KEY as os.getenv returns it: absent, present but not accepted by
\* the search service, or present and accepted.
ApiKeys == {"missing", "invalid", "valid"}

\* What Prompt.ask may return: the empty line or a query.
Queries == {"", "query"}

\* The text of the model's final message.
Answers == {"", "answer"}

VARIABLES
    api_key,          \* os.getenv("EXA_API_KEY")
    exa,              \* the module-level Exa client: "none" | "client"
    pc,               \* position of the driver (module import, main())
    query,            \* what Prompt.ask returned, "none" before
    status,           \* console.status spinner shown
    result,           \* result.final_output once Runner.run returned
    displayed,        \* the "Research Results" panels printed, in order
    exc,              \* the exception that left main(), "none" if none
    rpc,              \* position inside Runner.run
    current_turn,     \* Runner.run's turn counter
    generated_items,  \* the run's items after instructions and query
    tool_calls,       \* call ids requested by the current response
    outcome,          \* per requested call: "pending" | "running" | output
    completed,        \* log of tool completions, in completion order
    final_output,     \* the run's final output, "none" before
    run_error,        \* the exception Runner.run raised, "none" if none
    runs,             \* number of Runner.run calls the driver made
    search_calls,     \* number of exa.search_and_contents calls issued
    failures,         \* failed searches under a valid key
    extra_calls       \* calls requested so far beyond the first of a response

vars == <<api_key, exa, pc, query, status, result, displayed, exc, rpc,
          current_turn, generated_items, tool_calls, outcome, completed,
          final_output, run_error, runs, search_calls, failures,
          extra_calls>>

runnerVars == <<rpc, current_turn, generated_items, tool_calls, outcome,
                completed, final_output, run_error, runs, search_calls,
                failures, extra_calls>>

\* ---------------------------------------------------------------- helpers
IsPrefix(s, t) == Len(s) <= Len(t) /\ SubSeq(t, 1, Len(s)) = s

RECURSIVE SelectOutputs(_)
\* The tool outputs of a sequence of items, in order.
SelectOutputs(items) ==
    IF items = <<>> THEN <<>>
    ELSE IF Head(items).type = "tool_output"
         THEN <<Head(items)>> \o SelectOutputs(Tail(items))
         ELSE SelectOutputs(Tail(items))

CallIds(items) == {items[i].call_id : i \in {j \in 1..Len(items) : items[j].type = "tool_call"}}
OutputIds(items) == {items[i].call_id : i \in {j \in 1..Len(items) : items[j].type = "tool_output"}}

\* ------------------------------------------------------- module import
\* Exa(api_key=os.getenv("EXA_API_KEY")): the constructor rejects only an
\* absent key; it makes no request, so a wrong key is accepted here.
ExaInit ==
    /\ pc = "import"
    /\ IF api_key = "missing"
       THEN /\ pc' = "crashed"
            /\ exc' = "ValueError"
            /\ exa' = exa
       ELSE /\ pc' = "welcome"
            /\ exa' = "client"
            /\ exc' = exc
    /\ UNCHANGED <<api_key, query, status, result, displayed>>
    /\ UNCHANGED runnerVars

\* ------------------------------------------------------------- main()
\* console.print(Panel.fit("Research Assistant ...", title="Welcome"))
Welcome ==
    /\ pc = "welcome"
    /\ pc' = "ask"
    /\ UNCHANGED <<api_key, exa, query, status, result, displayed, exc>>
    /\ UNCHANGED runnerVars

\* query = Prompt.ask(...)
Ask ==
    /\ pc = "ask"
    /\ \E q \in Queries : query' = q
    /\ pc' = "agent"
    /\ UNCHANGED <<api_key, exa, status, result, displayed, exc>>
    /\ UNCHANGED runnerVars

\* agent = Agent(name=..., instructions=<inline literal>, tools=[exa_web_search])
CreateAgent ==
    /\ pc = "agent"
    /\ pc' = "status"
    /\ UNCHANGED <<api_key, exa, query, status, result, displayed, exc>>
    /\ UNCHANGED runnerVars

\* with console.status(...): result = await Runner.run(agent, query, max_turns=10)
\* Entering the block shows the spinner and starts the run.
EnterStatus ==
    /\ pc = "status"
    /\ status' = TRUE
    /\ pc' = "run"
    /\ rpc' = "turn"
    /\ runs' = runs + 1
    /\ UNCHANGED <<api_key, exa, query, result, displayed, exc>>
    /\ UNCHANGED <<current_turn, generated_items, tool_calls, outcome,
                   completed, final_output, run_error, search_calls,
                   failures, extra_calls>>

\* ------------------------------------------- Runner.run(agent, query, 10)
\* (variant: the comparison is off by one, so that turn max_turns + 1 runs)
TurnBudgetExceeded_offByOne(t) == t > max_turns + 1

\* The turn budget: a turn numbered t may run only while t <= max_turns.
TurnBudgetExceeded(t) == t > max_turns

\* Start of a loop iteration: the next turn runs, or MaxTurnsExceeded is
\* raised.  current_turn counts the turns (model invocations) run.
StartTurn ==
    /\ pc = "run"
    /\ rpc = "turn"
    /\ IF TurnBudgetExceeded(current_turn + 1)
       THEN /\ rpc' = "raised"
            /\ run_error' = "MaxTurnsExceeded"
            /\ current_turn' = current_turn
       ELSE /\ rpc' = "model"
            /\ current_turn' = current_turn + 1
            /\ run_error' = run_error
    /\ UNCHANGED <<api_key, exa, pc, query, status, result, displayed, exc>>
    /\ UNCHANGED <<generated_items, tool_calls, outcome, completed,
                   final_output, runs, search_calls, failures, extra_calls>>

\* (variant: an output equal to one already recorded is merged into it)
AppendItems_merging(items, new) ==
    items \o SelectSeq(new, LAMBDA e :
                 ~ (e.type = "tool_output" /\
                    \E j \in 1..Len(items) :
                        items[j].type = "tool_output" /\ items[j].output = e.output))

\* New items are added at the end of the run's items.
AppendItems(items, new) == items \o new

\* The model answers with a final message: the run returns it.
ModelFinal ==
    /\ pc = "run"
    /\ rpc = "model"
    /\ \E a \in Answers :
        /\ final_output' = a
        /\ generated_items' =
              AppendItems(generated_items, <<[type |-> "message", text |-> a]>>)
    /\ rpc' = "returned"
    /\ UNCHANGED <<api_key, exa, pc, query, status, result, displayed, exc>>
    /\ UNCHANGED <<current_turn, tool_calls, outcome, completed, run_error,
                   runs, search_calls, failures, extra_calls>>

\* The model requests n calls of exa_web_search; call i of turn t has the
\* call id <<t, i>>.
ModelToolCalls ==
    /\ pc = "run"
    /\ rpc = "model"
    /\ \E n \in 1..(1 + MaxExtraCalls - extra_calls) :
        /\ tool_calls' = [i \in 1..n |-> <<current_turn, i>>]
        /\ outcome' = [i \in 1..n |-> "pending"]
        /\ extra_calls' = extra_calls + (n - 1)
    /\ rpc' = "tools"
    /\ UNCHANGED <<api_key, exa, pc, query, status, result, displayed, exc>>
    /\ UNCHANGED <<current_turn, generated_items, completed, final_output,
                   run_error, runs, search_calls, failures>>

\* The call to the model fails (service unreachable, ...): Runner.run raises.
ModelError ==
    /\ pc = "run"
    /\ rpc = "model"
    /\ rpc' = "raised"
    /\ run_error' = "ModelError"
    /\ UNCHANGED <<api_key, exa, pc, query, status, result, displayed, exc>>
    /\ UNCHANGED <<current_turn, generated_items, tool_calls, outcome,
                   completed, final_output, runs, search_calls, failures,
                   extra_calls>>

\* ---------------------------------------------------- exa_web_search
\* exa.search_and_contents(query=query, type="auto", highlights=True): what
\* the call may do.  A key the service does not accept fails every call.
search_and_contents(key, mayFail) ==
    IF key = "valid"
    THEN {"results"} \cup (IF mayFail THEN {"SearchError"} ELSE {})
    ELSE {"SearchError"}

\* (variant: the wrapper lets the body's exception through)
on_invoke_tool_reraising(raw) ==
    IF raw = "SearchError"
    THEN [raised |-> TRUE, output |-> "none"]
    ELSE [raised |-> FALSE, output |-> raw]

\* The @function_tool wrapper around exa_web_search: the body's return
\* value is the tool's output; an exception of the body is not re-raised
\* but becomes an error message that is the tool's output.
on_invoke_tool(raw) ==
    IF raw = "SearchError"
    THEN [raised |-> FALSE, output |-> "error_message"]
    ELSE [raised |-> FALSE, output |-> raw]

\* Call i of the current response is issued.
ToolStart(i) ==
    /\ pc = "run"
    /\ rpc = "tools"
    /\ i \in DOMAIN outcome
    /\ outcome[i] = "pending"
    /\ outcome' = [outcome EXCEPT ![i] = "running"]
    /\ search_calls' = search_calls + 1
    /\ UNCHANGED <<api_key, exa, pc, query, status, result, displayed, exc>>
    /\ UNCHANGED <<rpc, current_turn, generated_items, tool_calls, completed,
                   final_output, run_error, runs, failures, extra_calls>>

\* Call i completes, with results or with a failure.
ToolFinish(i) ==
    /\ pc = "run"
    /\ rpc = "tools"
    /\ i \in DOMAIN outcome
    /\ outcome[i] = "running"
    /\ \E raw \in search_and_contents(api_key, failures < MaxFailures) :
        LET r == on_invoke_tool(raw) IN
        /\ failures' = IF raw = "SearchError" /\ api_key = "valid"
                       THEN failures + 1 ELSE failures
        /\ IF r.raised
           THEN /\ rpc' = "raised"
                /\ run_error' = raw
                /\ UNCHANGED <<outcome, completed>>
           ELSE /\ outcome' = [outcome EXCEPT ![i] = r.output]
                /\ completed' = Append(completed,
                       [type |-> "tool_output", call_id |-> tool_calls[i],
                        output |-> r.output])
                /\ UNCHANGED <<rpc, run_error>>
    /\ UNCHANGED <<api_key, exa, pc, query, status, result, displayed, exc>>
    /\ UNCHANGED <<current_turn, generated_items, tool_calls, final_output,
                   runs, search_calls, extra_calls>>

\* The tool call items of a response, in the order requested.
ToolCallItems(calls) ==
    [i \in 1..Len(calls) |-> [type |-> "tool_call", call_id |-> calls[i]]]

\* The outputs of the calls of a response, gathered in the order requested,
\* each under the id of its call.
GatherOutputs(calls, out) ==
    [i \in 1..Len(calls) |->
        [type |-> "tool_output", call_id |-> calls[i], output |-> out[i]]]

\* (variant: the loop goes on as soon as one call has completed)
AllCompleted_any(out) ==
    \E i \in DOMAIN out : out[i] \notin {"pending", "running"}

\* The join on the calls of a response: every one of them has completed.
AllCompleted(out) ==
    \A i \in DOMAIN out : out[i] \notin {"pending", "running"}

\* Every call of the response has completed: its items are added to the
\* run's items and the loop runs again.
Join ==
    /\ pc = "run"
    /\ rpc = "tools"
    /\ AllCompleted(outcome)
    /\ generated_items' =
          AppendItems(generated_items,
                      ToolCallItems(tool_calls) \o GatherOutputs(tool_calls, outcome))
    /\ tool_calls' = <<>>
    /\ outcome' = <<>>
    /\ rpc' = "turn"
    /\ UNCHANGED <<api_key, exa, pc, query, status, result, displayed, exc>>
    /\ UNCHANGED <<current_turn, completed, final_output, run_error, runs,
                   search_calls, failures, extra_calls>>

\* ------------------------------------------------- main(), after the run
\* (variant: main() catches the exception and goes on to print)
AfterRun_swallowing(r) == "display"

\* Where main() continues when Runner.run has ended: there is no try/except
\* around the await, so an exception leaves main().
AfterRun(r) == IF r = "raised" THEN "crashed" ELSE "display"

\* Runner.run returns or raises; the status block is left either way.
RunEnds ==
    /\ pc = "run"
    /\ rpc \in {"returned", "raised"}
    /\ status' = FALSE
    /\ pc' = AfterRun(rpc)
    /\ IF rpc = "returned"
       THEN result' = final_output /\ exc' = exc
       ELSE result' = result /\ exc' = run_error
    /\ UNCHANGED <<api_key, exa, query, displayed>>
    /\ UNCHANGED runnerVars

\* (variant: the panel is printed twice)
DisplayResult_twice(d, r) == Append(Append(d, r), r)

\* console.print(Panel.fit(Markdown(result.final_output), ...))
DisplayResult(d, r) == Append(d, r)

Display ==
    /\ pc = "display"
    /\ displayed' = DisplayResult(displayed, result)
    /\ pc' = "done"
    /\ UNCHANGED <<api_key, exa, query, status, result, exc>>
    /\ UNCHANGED runnerVars

\* --------------------------------------------------------- specification
Init ==
    /\ api_key \in ApiKeys
    /\ exa = "none"
    /\ pc = "import"
    /\ query = "none"
    /\ status = FALSE
    /\ result = "none"
    /\ displayed = <<>>
    /\ exc = "none"
    /\ rpc = "idle"
    /\ current_turn = 0
    /\ generated_items = <<>>
    /\ tool_calls = <<>>
    /\ outcome = <<>>
    /\ completed = <<>>
    /\ final_output = "none"
    /\ run_error = "none"
    /\ runs = 0
    /\ search_calls = 0
    /\ failures = 0
    /\ extra_calls = 0

Next ==
    \/ ExaInit
    \/ Welcome
    \/ Ask
    \/ CreateAgent
    \/ EnterStatus
    \/ StartTurn
    \/ ModelFinal
    \/ ModelToolCalls
    \/ ModelError
    \/ \E i \in 1..(1 + MaxExtraCalls) : ToolStart(i)
    \/ \E i \in 1..(1 + MaxExtraCalls) : ToolFinish(i)
    \/ Join
    \/ RunEnds
    \/ Display

Spec == Init /\ [][Next]_vars

\* Every awaited call returns or raises, and the driver keeps running.
FairSpec == Spec /\ WF_vars(Next)

Terminated == pc \in {"done", "crashed"}

\* The run has ended: Runner.run returned or raised.
RunTerminal == rpc \in {"returned", "raised"}

\* The turn budget ran out: Runner.run raised MaxTurnsExceeded.
Exhausted == rpc = "raised" /\ run_error = "MaxTurnsExceeded"

\* The items of a sequence, as a set.
Range(s) == {s[i] : i \in DOMAIN s}

\* The completions that were failures of the search.
FailedSearches == {e \in Range(completed) : e.output = "error_message"}

\* ------------------------------------------------------------------ C1
\* C1 (as claimed): a run for a non-empty query never ends, not even by
\* hitting the turn cap, without a Final Answer handed to the driver and
\* displayed.  The runs in which the reasoning capability itself fails are
\* left aside here (they are C8's); the formula is violated by a run whose
\* model asks for a search on each of its ten turns.
C1_FinalAnswerAlwaysDelivered ==
    (Terminated /\ query \notin {"none", ""} /\ run_error # "ModelError")
        => (Len(displayed) = 1 /\ result # "none")

C3_FailureIsEvidence ==
    /\ run_error \notin {"SearchError"}
    /\ \A e \in FailedSearches :
        /\ e.call_id[1] <= current_turn
        /\ rpc # "tools" => e \in Range(generated_items)

C4_ExhaustedSynthesisesAnswer ==
    Exhausted =>
        /\ tool_calls = <<>>
        /\ search_calls = Len(completed)
        /\ Terminated => (final_output # "none" /\ displayed # <<>>)

\* ------------------------------------------------------------------ C5
\* C5 (as claimed): with a missing or invalid search credential the failure
\* is raised before the run starts, so that no search tool call is issued.
C5_InvalidConfigurationFailsFast ==
    api_key \in {"missing", "invalid"} => search_calls = 0

\* ------------------------------------------------------------------ C6
\* C6: whenever the loop is about to take a reasoning step (or has ended),
\* no requested call is outstanding, every call issued has completed, and
\* the tool outputs in the run's state are exactly the completions, each
\* under the id of the call that produced it, one per call requested.
C6_JoinBeforeReasoning ==
    rpc # "tools" =>
        /\ tool_calls = <<>>
        /\ search_calls = Len(completed)
        /\ Range(SelectOutputs(generated_items)) = Range(completed)
        /\ Len(SelectOutputs(generated_items)) = Len(completed)
        /\ CallIds(generated_items) = OutputIds(generated_items)

\* C6 witness: a response asked for two calls, the second completed first
\* and with another outcome than the first, and the loop is at its next
\* reasoning step.
C6_Witness ==
    /\ rpc = "model"
    /\ \E i, j \in DOMAIN completed :
        /\ i < j
        /\ completed[i].call_id[1] = completed[j].call_id[1]
        /\ completed[i].call_id[2] = 2
        /\ completed[j].call_id[2] = 1
        /\ completed[i].output # completed[j].output
        /\ completed[i].call_id[1] < current_turn

\* ------------------------------------------------------------------ C7
\* At the end of a run the state holds every output obtained, once, the
\* outputs of an earlier turn before those of a later one.
C7_HistoryComplete ==
    LET outs == SelectOutputs(generated_items) IN
    /\ Len(outs) = Len(completed)
    /\ Range(outs) = Range(completed)
    /\ \A i, j \in DOMAIN outs : i < j => outs[i].call_id[1] <= outs[j].call_id[1]

\* C7: every step leaves the run's items as they are or adds items at the
\* end; none is removed, moved or merged, and when the run has ended the
\* items hold every output of every turn, in the order of the turns.
C7_RunStateAppendOnly ==
    /\ [][IsPrefix(generated_items, generated_items')]_vars
    /\ [](RunTerminal => C7_HistoryComplete)

\* C7 witness: a finished run whose state holds the equal results of two
\* searches of different turns, both kept.
C7_Witness ==
    /\ rpc = "returned"
    /\ \E i, j \in DOMAIN generated_items :
        /\ i < j
        /\ generated_items[i].type = "tool_output"
        /\ generated_items[j].type = "tool_output"
        /\ generated_items[i].output = "results"
        /\ generated_items[j].output = "results"
        /\ generated_items[i].call_id[1] < generated_items[j].call_id[1]

\* ------------------------------------------------------------------ C8
\* C8: when the reasoning capability fails, Runner.run raises, the
\* exception leaves main() as it is, and no result panel is printed.
C8_RunErrorReachesDriver ==
    run_error = "ModelError" =>
        /\ rpc = "raised"
        /\ final_output = "none"
        /\ displayed = <<>>
        /\ result = "none"
        /\ pc \in {"run", "crashed"}
        /\ pc = "crashed" => (exc = "ModelError" /\ ~status)

\* C8 witness: the model failed after a turn of searching and the exception
\* has left main().
C8_Witness ==
    /\ pc = "crashed"
    /\ exc = "ModelError"
    /\ current_turn >= 2
    /\ Len(completed) >= 1

\* ----------------------------------------------------------------- C10
\* C10: the driver makes at most one run and prints at most one result
\* panel; a panel is printed only after Runner.run has returned, it shows
\* the run's final output, and a driver that has finished has printed it.
C10_DeliveredOnceAfterRun ==
    /\ runs <= 1
    /\ Len(displayed) <= 1
    /\ displayed # <<>> =>
          /\ pc = "done"
          /\ rpc = "returned"
          /\ runs = 1
          /\ ~status
          /\ displayed[1] = final_output
    /\ pc = "done" => Len(displayed) = 1

\* C10 witness: a run that searched and answered, whose answer is shown.
C10_Witness ==
    /\ pc = "done"
    /\ displayed = <<"answer">>
    /\ query = "query"
    /\ search_calls >= 2

=============================================================================
